---- MODULE Spec2Model ----
(***************************************************************************)
(* scmshell.py: a shell-prompt helper that detects the version control     *)
(* system of the current directory (Mercurial before Git), parses the      *)
(* output of `hg status` / `hg branch` / `git status` / `git branch`, and  *)
(* prints a user line and a VCS line.                                      *)
(*                                                                         *)
(* Text is a sequence of symbols.  A symbol is one character ("a", " ",    *)
(* "\n") or a literal phrase that the parsing code only ever handles as a  *)
(* unit ("ntracked files:").  Concatenating the symbols gives the Python   *)
(* string.  Python values that may be None, an int or a str are records    *)
(* [type |-> ..., val |-> ...].                                            *)
(***************************************************************************)
EXTENDS Integers, Sequences, FiniteSets

VARIABLES
    pc,        \* the statement the program is at
    calls,     \* how many times main has entered getSCMInfo() (lines 202, 206)
    idx,       \* position of `for cls in self._classes` (line 32)
    probes,    \* probes[c]: the <<backend, output>> of each isCorrect() of the
               \* c-th getSCMInfo() call (lines 86, 117)
    scm,       \* `scm` of getSCMInfo (line 176): "hg", "git" or "None"
    output,    \* local `output` of the parser at work (lines 96, 126, 135)
    rest,      \* lines of output.split("\n") the git loop has not read (line 138)
    mode,      \* local `mode` of GitInfo.getChanges (line 136)
    result,    \* local `result` of getChanges (lines 97, 137)
    branch,    \* what self.getCurrentBranch() returned (line 64)
    retVal,    \* what the module-level getSCMInfo() returned (lines 178, 180)
    scmInfo,   \* main's `scmInfo` (line 202)
    stdout,    \* the lines printed so far (lines 203-208)
    user       \* getpass.getuser() (line 188)

vars == <<pc, calls, idx, probes, scm, output, rest, mode, result, branch,
          retVal, scmInfo, stdout, user>>

----------------------------------------------------------------------------
(* Bounds of the explored inputs *)

\* longest `hg status` text explored, in characters
MaxHgLen == 5
\* longest `git branch` text explored, in characters
MaxBranchLen == 7
\* most lines of a `git status` text explored
MaxLines == 3

----------------------------------------------------------------------------
(* Python values *)

PyNone == [type |-> "NoneType"]
PyStr(s) == [type |-> "str", val |-> s]
PyInt(n) == [type |-> "int", val |-> n]

----------------------------------------------------------------------------
(* Color and Style escape sequences, one symbol each *)

RED == "\\x1b[31m"
BLUE == "\\x1b[34m"
GREEN == "\\x1b[32m"
YELLOW == "\\x1b[33m"
RESET == "\\x1b[37m"
BRIGHT == "\\x1b[1m"
DIM == "\\x1b[2m"
NORMAL == "\\x1b[0m"

Styles == {RED, BLUE, GREEN, YELLOW, RESET, BRIGHT, DIM, NORMAL}

----------------------------------------------------------------------------
(* String primitives *)

NL == "\n"
TAB == "\t"

Lower == {"a","b","c","d","e","f","g","h","i","j","k","l","m",
          "n","o","p","q","r","s","t","u","v","w","x","y","z"}
Upper == {"A","B","C","D","E","F","G","H","I","J","K","L","M",
          "N","O","P","Q","R","S","T","U","V","W","X","Y","Z"}
Digit == {"0","1","2","3","4","5","6","7","8","9"}
Whitespace == {" ", TAB, NL, "\r"}

\* s[:n]
Prefix(s, n) == SubSeq(s, 1, IF Len(s) < n THEN Len(s) ELSE n)

\* s[i:]
From(s, i) == SubSeq(s, i, Len(s))

\* the first position >= i of s whose symbol is not in set (Len(s)+1 if none)
RECURSIVE RunEnd(_, _, _)
RunEnd(s, i, set) ==
    IF i > Len(s) \/ s[i] \notin set THEN i ELSE RunEnd(s, i + 1, set)

\* whether phrase p occurs in s at position i
OccursAt(s, i, p) ==
    /\ i >= 1
    /\ i + Len(p) - 1 <= Len(s)
    /\ SubSeq(s, i, i + Len(p) - 1) = p

\* s.find(p) > -1
Contains(s, p) == \E i \in 1..(Len(s) + 1) : OccursAt(s, i, p)

\* s.strip(chars), chars given as a set of characters
RECURSIVE LStrip(_, _)
LStrip(s, set) ==
    IF Len(s) > 0 /\ s[1] \in set THEN LStrip(Tail(s), set) ELSE s

RECURSIVE RStrip(_, _)
RStrip(s, set) ==
    IF Len(s) > 0 /\ s[Len(s)] \in set
    THEN RStrip(SubSeq(s, 1, Len(s) - 1), set)
    ELSE s

Strip(s, set) == RStrip(LStrip(s, set), set)

\* the first position >= i of s that holds a newline (Len(s)+1 if none)
RECURSIVE LineEnd(_, _)
LineEnd(s, i) ==
    IF i > Len(s) \/ s[i] = NL THEN i ELSE LineEnd(s, i + 1)

\* s.split("\n"): always at least one line
RECURSIVE Split(_)
Split(s) ==
    LET i == LineEnd(s, 1)
    IN  IF i > Len(s)
        THEN <<s>>
        ELSE <<SubSeq(s, 1, i - 1)>> \o Split(From(s, i + 1))

\* str(n) for an int n >= 0
DigitOf(d) ==
    CASE d = 0 -> "0" [] d = 1 -> "1" [] d = 2 -> "2" [] d = 3 -> "3"
      [] d = 4 -> "4" [] d = 5 -> "5" [] d = 6 -> "6" [] d = 7 -> "7"
      [] d = 8 -> "8" [] d = 9 -> "9"

RECURSIVE IntToStr(_)
IntToStr(n) ==
    IF n < 10 THEN <<DigitOf(n)>> ELSE IntToStr(n \div 10) \o <<DigitOf(n % 10)>>

\* str(v) / "%s" % v
Str(v) ==
    CASE v.type = "NoneType" -> <<"N", "o", "n", "e">>
      [] v.type = "int" -> IntToStr(v.val)
      [] v.type = "str" -> v.val

----------------------------------------------------------------------------
(* Dictionaries: functions from the keys present *)

EmptyDict == [k \in {} |-> [count |-> PyInt(0)]]

Put(d, k, v) == [x \in DOMAIN d \cup {k} |-> IF x = k THEN v ELSE d[x]]

Incr(d, k) == [d EXCEPT ![k] = [count |-> PyInt(d[k].count.val + 1)]]

----------------------------------------------------------------------------
(* HgInfo *)

ABORT == <<"a", "b", "o", "r", "t">>

\* return len(output) <= 0 or output[:5] != 'abort'
HgInfo_isCorrect(out) == Len(out) <= 0 \/ Prefix(out, 5) # ABORT

\* return self._command(['hg', 'branch'], False).strip()
HgInfo_getCurrentBranch(out) == PyStr(Strip(out, Whitespace))

\* HgLine with `result['uncommitted'] = {'count': 0}` done for every 'M' line,
\* not only for the first
HgLine_ResetsUncommitted(line, r) ==
    LET r1 == IF Len(line) > 0 /\ line[1] = "?"
              THEN Incr(IF "untracked" \notin DOMAIN r
                        THEN Put(r, "untracked", [count |-> PyInt(0)])
                        ELSE r, "untracked")
              ELSE r
    IN  IF Len(line) > 0 /\ line[1] = "M"
        THEN Incr(Put(r1, "uncommitted", [count |-> PyInt(0)]), "uncommitted")
        ELSE r1

\* HgLine with the 'untracked' key created for every non-empty line, before
\* the test of the first character
HgLine_InitAlways(line, r) ==
    LET r0 == IF Len(line) > 0 /\ "untracked" \notin DOMAIN r
              THEN Put(r, "untracked", [count |-> PyInt(0)])
              ELSE r
        r1 == IF Len(line) > 0 /\ line[1] = "?" THEN Incr(r0, "untracked") ELSE r0
    IN  IF Len(line) > 0 /\ line[1] = "M"
        THEN Incr(IF "uncommitted" \notin DOMAIN r1
                  THEN Put(r1, "uncommitted", [count |-> PyInt(0)])
                  ELSE r1, "uncommitted")
        ELSE r1

\* the body of `for line in output.split("\n")` in HgInfo.getChanges
HgLine(line, r) ==
    LET r1 == IF Len(line) > 0 /\ line[1] = "?"
              THEN Incr(IF "untracked" \notin DOMAIN r
                        THEN Put(r, "untracked", [count |-> PyInt(0)])
                        ELSE r, "untracked")
              ELSE r
    IN  IF Len(line) > 0 /\ line[1] = "M"
        THEN Incr(IF "uncommitted" \notin DOMAIN r1
                  THEN Put(r1, "uncommitted", [count |-> PyInt(0)])
                  ELSE r1, "uncommitted")
        ELSE r1

RECURSIVE HgLoop(_, _)
HgLoop(ls, r) == IF ls = <<>> THEN r ELSE HgLoop(Tail(ls), HgLine(Head(ls), r))

HgInfo_getChanges(out) == HgLoop(Split(out), EmptyDict)

----------------------------------------------------------------------------
(* GitInfo *)

FATAL == <<"f", "a", "t", "a", "l">>

\* GitInfo.isCorrect without the test for an empty output
GitInfo_isCorrect_AcceptsEmpty(out) == Prefix(out, 5) # FATAL

\* return len(output) > 0 and output[:5] != 'fatal'
GitInfo_isCorrect(out) == Len(out) > 0 /\ Prefix(out, 5) # FATAL

\* re.search(r"(\*) (.*)", output): the leftmost "* " anywhere in the text;
\* group 2 runs to the end of that line ('.' matches no newline)
GitInfo_getCurrentBranch(out) ==
    LET hits == {i \in 1..Len(out) : OccursAt(out, i, <<"*", " ">>)}
    IN  IF Len(out) > 0 /\ hits # {}
        THEN LET i == CHOOSE h \in hits : \A g \in hits : h <= g
             IN  PyStr(SubSeq(out, i + 2, LineEnd(out, i + 2) - 1))
        ELSE PyNone

UNTRACKED_HDR == <<"U", "ntracked files:">>
UNSTAGED_HDR == <<"C", "hanges not staged for commit:">>
UNCOMMITTED_HDR == <<"C", "hanges to be committed:">>
USE_GIT == <<"(", "use \"git">>

\* re.match(r'^[A_Z]', line): the class holds the three characters A, _ and Z
SectionBreak(line) == Len(line) > 0 /\ line[1] \in {"A", "_", "Z"}

\* ScanLine with the header line itself counted
ScanLine_CountsHeader(raw, st) ==
    LET line == Strip(raw, {"#", " "})
        enter(m) == [mode |-> m, result |-> Put(st.result, m, [count |-> PyInt(1)])]
    IN  IF Contains(line, UNTRACKED_HDR) THEN enter("untracked")
        ELSE IF Contains(line, UNSTAGED_HDR) THEN enter("unstaged")
        ELSE IF Contains(line, UNCOMMITTED_HDR) THEN enter("uncommitted")
        ELSE IF SectionBreak(line) THEN [mode |-> "none", result |-> st.result]
        ELSE IF Len(line) > 0 /\ ~Contains(line, USE_GIT) /\ st.mode # "none"
             THEN [mode |-> st.mode, result |-> Incr(st.result, st.mode)]
             ELSE st

\* one iteration of `for line in output.split("\n")` in GitInfo.getChanges;
\* st = [mode, result] before the line, the value is [mode, result] after it
ScanLine(raw, st) ==
    LET line == Strip(raw, {"#", " "})
        enter(m) == [mode |-> m, result |-> Put(st.result, m, [count |-> PyInt(0)])]
    IN  IF Contains(line, UNTRACKED_HDR) THEN enter("untracked")
        ELSE IF Contains(line, UNSTAGED_HDR) THEN enter("unstaged")
        ELSE IF Contains(line, UNCOMMITTED_HDR) THEN enter("uncommitted")
        ELSE IF SectionBreak(line) THEN [mode |-> "none", result |-> st.result]
        ELSE IF Len(line) > 0 /\ ~Contains(line, USE_GIT) /\ st.mode # "none"
             THEN [mode |-> st.mode, result |-> Incr(st.result, st.mode)]
             ELSE st

BEHIND_PRE == <<"Y", "our branch is behind 'origin/">>
AHEAD_PRE == <<"Y", "our branch is ahead of 'origin/">>
BY_MID == "' by "
COMMIT == " commit"

\* [a-zA-Z0-9]
Alnum == Lower \cup Upper \cup Digit

\* whether  <pre>[a-zA-Z0-9]+' by ([0-9]+) commit  matches out at position i;
\* both runs are greedy and are followed by a symbol outside their class, so
\* only the whole run can match
OriginAt(out, i, pre) ==
    LET a == i + Len(pre)
        b == RunEnd(out, a, Alnum)
        c == b + 1
        d == RunEnd(out, c, Digit)
    IN  /\ OccursAt(out, i, pre)
        /\ b > a /\ b <= Len(out) /\ out[b] = BY_MID
        /\ d > c /\ d <= Len(out) /\ out[d] = COMMIT

\* re.search(...).groups()[0] of the leftmost match, or None
SearchOrigin(out, pre) ==
    LET hits == {i \in 1..Len(out) : OriginAt(out, i, pre)}
    IN  IF hits = {}
        THEN PyNone
        ELSE LET i == CHOOSE h \in hits : \A g \in hits : h <= g
                 c == RunEnd(out, i + Len(pre), Alnum) + 1
             IN  PyStr(SubSeq(out, c, RunEnd(out, c, Digit) - 1))

\* the two searches after the loop of GitInfo.getChanges
OriginCounts(out, r) ==
    LET behind == SearchOrigin(out, BEHIND_PRE)
        r1 == IF behind.type # "NoneType"
              THEN Put(r, "behind", [count |-> behind]) ELSE r
        ahead == SearchOrigin(out, AHEAD_PRE)
    IN  IF ahead.type # "NoneType"
        THEN Put(r1, "ahead", [count |-> ahead]) ELSE r1

----------------------------------------------------------------------------
(* AbstractInfo, AbstractDistributedInfo *)

\* the UTF-8 bytes of the two arrows, and the characters they decode to
ARROW_RIGHT_UTF8 == "E2 96 BA"
ARROW_LEFT_UTF8 == "E2 97 84"

\* char.decode(sys.stdout.encoding), on a terminal whose encoding has the arrows
char(c) ==
    CASE c = ARROW_RIGHT_UTF8 -> "U+25BA"
      [] c = ARROW_LEFT_UTF8 -> "U+25C4"

\* FormatSCMInfo with the ahead fragment before the behind fragment
FormatSCMInfo_AheadFirst(name, br, changes) ==
    LET part(k, label) ==
            IF k \in DOMAIN changes
            THEN <<DIM>> \o label \o Str(changes[k].count)
            ELSE <<>>
    IN  <<YELLOW, "(", name, ":">> \o Str(br)
        \o (IF DOMAIN changes # {}
            THEN part("ahead", <<",origin", char(ARROW_LEFT_UTF8)>>)
                 \o part("behind", <<",origin", char(ARROW_RIGHT_UTF8)>>)
                 \o part("untracked", <<",untracked:">>)
                 \o part("unstaged", <<",unstaged:">>)
                 \o part("uncommitted", <<",uncommitted:">>)
            ELSE <<>>)
        \o <<BRIGHT, ")">>

\* AbstractDistributedInfo.getSCMInfo, given what getName, getCurrentBranch and
\* getChanges returned
FormatSCMInfo(name, br, changes) ==
    LET part(k, label) ==
            IF k \in DOMAIN changes
            THEN <<DIM>> \o label \o Str(changes[k].count)
            ELSE <<>>
    IN  <<YELLOW, "(", name, ":">> \o Str(br)
        \o (IF DOMAIN changes # {}
            THEN part("behind", <<",origin", char(ARROW_RIGHT_UTF8)>>)
                 \o part("ahead", <<",origin", char(ARROW_LEFT_UTF8)>>)
                 \o part("untracked", <<",untracked:">>)
                 \o part("unstaged", <<",unstaged:">>)
                 \o part("uncommitted", <<",uncommitted:">>)
            ELSE <<>>)
        \o <<BRIGHT, ")">>

----------------------------------------------------------------------------
(* Module-level helpers of the prompt *)

HOST == "host"
CWD == "cwd"

getDirectoryInfo == <<BLUE, CWD>>

getUserInfo(u) == <<BRIGHT, IF u = "root" THEN RED ELSE GREEN, u>>

getHostInfo == HOST

\* the user/host/directory line that main prints
UserLine(u) ==
    getUserInfo(u) \o <<DIM, "@", getHostInfo, ":", BRIGHT>>
    \o getDirectoryInfo \o <<NORMAL, RESET>>

\* the VCS line that main prints for a getSCMInfo() value
SCMLine(info) == <<BRIGHT>> \o info \o <<NORMAL, RESET>>

----------------------------------------------------------------------------
(* Inputs: what the external commands may print *)

\* all texts of at most n symbols over an alphabet
TextsUpTo(alphabet, n) == UNION {[1..k -> alphabet] : k \in 0..n}

\* "\n".join(ls)
RECURSIVE Join(_)
Join(ls) ==
    IF ls = <<>> THEN <<>>
    ELSE IF Len(ls) = 1 THEN ls[1]
    ELSE ls[1] \o <<NL>> \o Join(Tail(ls))

\* "Your branch is ahead of 'origin/<ref>' by <n> commits"
AheadLine(ref, n) == AHEAD_PRE \o ref \o <<BY_MID>> \o n \o <<COMMIT, "s">>
\* "Your branch is behind 'origin/<ref>' by <n> commits"
BehindLine(ref, n) == BEHIND_PRE \o ref \o <<BY_MID>> \o n \o <<COMMIT, "s">>

\* remote ref names and commit counts of the explored origin sentences
Refs == {<<"m">>, <<"f", "-", "x">>}
Counts == {<<"3">>, <<"1", "2">>}

HgAlphabet == {"?", "M", "R", " ", NL}
HgStatusTexts == TextsUpTo(HgAlphabet, MaxHgLen)

BranchAlphabet == {"*", " ", "m", NL}
GitBranchTexts == TextsUpTo(BranchAlphabet, MaxBranchLen)

GitStatusLines ==
    { <<"#", " ">> \o UNTRACKED_HDR,
      UNSTAGED_HDR,
      UNCOMMITTED_HDR,
      <<TAB, "a">>,
      <<" ", " ">> \o USE_GIT,
      <<>>,
      <<"#">>,
      <<"A", "a">>,
      <<"B", "a">>,
      UNSTAGED_HDR \o <<" ">> \o UNTRACKED_HDR,
      AheadLine(<<"m">>, <<"3">>),
      AheadLine(<<"f", "-", "x">>, <<"3">>),
      BehindLine(<<"m">>, <<"1", "2">>) }

GitStatusTexts == {Join(ls) : ls \in TextsUpTo(GitStatusLines, MaxLines)}

\* what the commands print during a run of the program
HgStatusOutputs ==
    { <<>>,
      ABORT \o <<":">>,
      <<"a", "b", "o", "r">>,
      <<"M", " ", "a", NL, "?", " ", "b", NL>> }

HgBranchOutputs == { <<"d", NL>>, <<>> }

GitStatusOutputs ==
    { <<>>,
      FATAL \o <<":">>,
      Join(<< UNSTAGED_HDR, <<TAB, "a">>, <<TAB, "b">>, <<>> >>),
      Join(<< <<"#", " ">> \o BehindLine(<<"m">>, <<"1", "2">>),
              <<"#", " ">> \o AheadLine(<<"m">>, <<"3">>),
              <<"#", " ">> \o UNCOMMITTED_HDR, <<"#", TAB, "a">>,
              <<"#", " ">> \o UNSTAGED_HDR, <<"#", TAB, "b">>,
              <<"#", " ">> \o UNTRACKED_HDR, <<"#", TAB, "c">> >>) }

GitBranchOutputs ==
    { <<"*", " ", "m", NL>>,
      <<" ", " ", "x", NL, "*", " ", "m", NL>>,
      <<>> }

Users == {"root", "alice"}

----------------------------------------------------------------------------
(* InfoFactory *)

\* the backends with Git probed first
classes_GitFirst == <<"git", "hg">>

\* self._classes = (HgInfo(), GitInfo())
classes == <<"hg", "git">>

isCorrect(cls, out) ==
    IF cls = "hg" THEN HgInfo_isCorrect(out) ELSE GitInfo_isCorrect(out)

\* what `hg status` / `git status` may print for the probe of cls
StatusOutputs(cls) == IF cls = "hg" THEN HgStatusOutputs ELSE GitStatusOutputs

----------------------------------------------------------------------------
(* The program *)

Init ==
    /\ pc = "getInfoClass"
    /\ calls = 1
    /\ idx = 1
    /\ probes = [c \in 1..2 |-> <<>>]
    /\ scm = "None"
    /\ output = <<>>
    /\ rest = <<>>
    /\ mode = "none"
    /\ result = EmptyDict
    /\ branch = PyNone
    /\ retVal = <<>>
    /\ scmInfo = <<>>
    /\ stdout = <<>>
    /\ user \in Users

\* one iteration of `for cls in self._classes: if cls.isCorrect(): return cls`
getInfoClass_probe ==
    /\ pc = "getInfoClass"
    /\ idx <= Len(classes)
    /\ \E out \in StatusOutputs(classes[idx]) :
        /\ probes' = [probes EXCEPT ![calls] = Append(@, <<classes[idx], out>>)]
        /\ IF isCorrect(classes[idx], out)
           THEN scm' = classes[idx] /\ pc' = "getCurrentBranch" /\ idx' = idx
           ELSE scm' = scm /\ pc' = pc /\ idx' = idx + 1
    /\ UNCHANGED <<calls, output, rest, mode, result, branch, retVal, scmInfo,
                   stdout, user>>

\* the loop ends: getInfoClass returns None and getSCMInfo() returns ''
getInfoClass_none ==
    /\ pc = "getInfoClass"
    /\ idx > Len(classes)
    /\ scm' = "None"
    /\ retVal' = <<>>
    /\ pc' = "returned"
    /\ UNCHANGED <<calls, idx, probes, output, rest, mode, result, branch,
                   scmInfo, stdout, user>>

\* HgInfo.getCurrentBranch
HgBranch ==
    /\ pc = "getCurrentBranch"
    /\ scm = "hg"
    /\ \E out \in HgBranchOutputs : branch' = HgInfo_getCurrentBranch(out)
    /\ pc' = "getChanges"
    /\ UNCHANGED <<calls, idx, probes, scm, output, rest, mode, result, retVal,
                   scmInfo, stdout, user>>

\* GitInfo.getCurrentBranch: output = self._command(["git", "branch"])
GitBranchCommand ==
    /\ pc = "getCurrentBranch"
    /\ scm = "git"
    /\ output' \in GitBranchOutputs
    /\ pc' = "git_branch_search"
    /\ UNCHANGED <<calls, idx, probes, scm, rest, mode, result, branch, retVal,
                   scmInfo, stdout, user>>

\* GitInfo.getCurrentBranch: the search and the return
GitBranchSearch ==
    /\ pc = "git_branch_search"
    /\ branch' = GitInfo_getCurrentBranch(output)
    /\ pc' = "getChanges"
    /\ UNCHANGED <<calls, idx, probes, scm, output, rest, mode, result, retVal,
                   scmInfo, stdout, user>>

\* HgInfo.getChanges: output = self._command(['hg', 'status'])
HgStatusCommand ==
    /\ pc = "getChanges"
    /\ scm = "hg"
    /\ output' \in HgStatusOutputs
    /\ pc' = "hg_loop"
    /\ UNCHANGED <<calls, idx, probes, scm, rest, mode, result, branch, retVal,
                   scmInfo, stdout, user>>

\* HgInfo.getChanges: the loop and the return
HgChangesLoop ==
    /\ pc = "hg_loop"
    /\ result' = HgInfo_getChanges(output)
    /\ pc' = "render"
    /\ UNCHANGED <<calls, idx, probes, scm, output, rest, mode, branch, retVal,
                   scmInfo, stdout, user>>

\* GitInfo.getChanges: the command, mode = "none", result = {}
GitStatusCommand ==
    /\ pc = "getChanges"
    /\ scm = "git"
    /\ \E out \in GitStatusOutputs :
        /\ output' = out
        /\ rest' = Split(out)
    /\ mode' = "none"
    /\ result' = EmptyDict
    /\ pc' = "git_scan"
    /\ UNCHANGED <<calls, idx, probes, scm, branch, retVal, scmInfo, stdout, user>>

\* GitInfo.getChanges: one iteration of the loop over the lines
GitScanLine ==
    /\ pc = "git_scan"
    /\ rest # <<>>
    /\ LET st == ScanLine(Head(rest), [mode |-> mode, result |-> result])
       IN  mode' = st.mode /\ result' = st.result
    /\ rest' = Tail(rest)
    /\ UNCHANGED <<pc, calls, idx, probes, scm, output, branch, retVal, scmInfo,
                   stdout, user>>

\* GitInfo.getChanges: after the loop, the behind/ahead searches and the return
GitSearchOrigin ==
    /\ pc = "git_scan"
    /\ rest = <<>>
    /\ result' = OriginCounts(output, result)
    /\ pc' = "render"
    /\ UNCHANGED <<calls, idx, probes, scm, output, rest, mode, branch, retVal,
                   scmInfo, stdout, user>>

\* AbstractDistributedInfo.getSCMInfo formats and returns; getSCMInfo() returns it
ReturnSCMInfo ==
    /\ pc = "render"
    /\ retVal' = FormatSCMInfo(scm, branch, result)
    /\ pc' = "returned"
    /\ UNCHANGED <<calls, idx, probes, scm, output, rest, mode, result, branch,
                   scmInfo, stdout, user>>

\* main: scmInfo = getSCMInfo(); print " "; print the user line; when scmInfo
\* is not empty, call getSCMInfo() again for the second print
MainPrintUser ==
    /\ pc = "returned"
    /\ calls = 1
    /\ scmInfo' = retVal
    /\ stdout' = << <<" ">>, UserLine(user) >>
    /\ IF Len(retVal) > 0
       THEN /\ pc' = "getInfoClass"
            /\ calls' = 2
            /\ idx' = 1
            /\ scm' = "None"
            /\ output' = <<>>
            /\ rest' = <<>>
            /\ mode' = "none"
            /\ result' = EmptyDict
            /\ branch' = PyNone
            /\ retVal' = <<>>
       ELSE /\ pc' = "done"
            /\ UNCHANGED <<calls, idx, scm, output, rest, mode, result, branch,
                           retVal>>
    /\ UNCHANGED <<probes, user>>

\* main: print the value of the second getSCMInfo() call
MainPrintSCM ==
    /\ pc = "returned"
    /\ calls = 2
    /\ stdout' = Append(stdout, SCMLine(retVal))
    /\ pc' = "done"
    /\ UNCHANGED <<calls, idx, probes, scm, output, rest, mode, result, branch,
                   retVal, scmInfo, user>>

Next ==
    \/ getInfoClass_probe
    \/ getInfoClass_none
    \/ HgBranch
    \/ GitBranchCommand
    \/ GitBranchSearch
    \/ HgStatusCommand
    \/ HgChangesLoop
    \/ GitStatusCommand
    \/ GitScanLine
    \/ GitSearchOrigin
    \/ ReturnSCMInfo
    \/ MainPrintUser
    \/ MainPrintSCM

Spec == Init /\ [][Next]_vars

----------------------------------------------------------------------------
(* The parsers alone, on every text within the bounds *)

ParseFrame ==
    /\ calls = 1
    /\ idx = 1
    /\ probes = [c \in 1..2 |-> <<>>]
    /\ mode = "none"
    /\ result = EmptyDict
    /\ branch = PyNone
    /\ retVal = <<>>
    /\ scmInfo = <<>>
    /\ stdout = <<>>
    /\ user = "alice"

InitParse ==
    /\ ParseFrame
    /\ \/ /\ pc = "hg_loop"
          /\ scm = "hg"
          /\ output \in HgStatusTexts
          /\ rest = <<>>
       \/ /\ pc = "git_branch_search"
          /\ scm = "git"
          /\ output \in GitBranchTexts
          /\ rest = <<>>
       \/ /\ pc = "git_scan"
          /\ scm = "git"
          /\ output \in GitStatusTexts
          /\ rest = Split(output)

NextParse ==
    \/ HgChangesLoop
    \/ GitBranchSearch
    \/ GitScanLine
    \/ GitSearchOrigin

SpecParse == InitParse /\ [][NextParse]_vars

----------------------------------------------------------------------------
(* Properties *)

StartsWith(s, p) == Len(s) >= Len(p) /\ SubSeq(s, 1, Len(p)) = p

\* the hg probe succeeds: output empty or not starting with 'abort'
HgProbeOK(out) == out = <<>> \/ ~StartsWith(out, ABORT)
\* the git probe succeeds: output non-empty and not starting with 'fatal'
GitProbeOK(out) == out # <<>> /\ ~StartsWith(out, FATAL)

ProbeOK(p) == IF p[1] = "hg" THEN HgProbeOK(p[2]) ELSE GitProbeOK(p[2])

\* C1: getInfoClass probes Mercurial first and Git second and returns the
\* first backend whose probe succeeds: Mercurial whenever the hg probe
\* succeeds (git is then not probed), Git only when the hg probe fails and the
\* git probe succeeds, and None exactly when both probes fail.
C1_FirstSuccessfulProbe ==
    pc # "getInfoClass" =>
        LET p == probes[calls]
        IN  /\ Len(p) >= 1
            /\ p[1][1] = "hg"
            /\ HgProbeOK(p[1][2]) => (scm = "hg" /\ Len(p) = 1)
            /\ ~HgProbeOK(p[1][2]) =>
                  /\ Len(p) = 2
                  /\ p[2][1] = "git"
                  /\ GitProbeOK(p[2][2]) => scm = "git"
                  /\ ~GitProbeOK(p[2][2]) => scm = "None"
            /\ scm = "None" =>
                  Len(p) = 2 /\ ~HgProbeOK(p[1][2]) /\ ~GitProbeOK(p[2][2])

\* the hg probe failed, the git probe succeeded, Git was returned
C1_Witness ==
    /\ pc = "getCurrentBranch"
    /\ scm = "git"
    /\ Len(probes[calls]) = 2
    /\ ~HgProbeOK(probes[calls][1][2])

\* C2: in a run in which no probe succeeds, the output is the separator line
\* followed by the user/host/directory line and nothing else.
C2_NoBackendNoVcsLine ==
    (/\ pc = "done"
     /\ \A c \in 1..2 : \A i \in 1..Len(probes[c]) : ~ProbeOK(probes[c][i]))
    => stdout = << <<" ">>, UserLine(user) >>

\* a finished run whose two probes both failed
C2_Witness ==
    /\ pc = "done"
    /\ Len(probes[1]) = 2
    /\ ~ProbeOK(probes[1][1])
    /\ ~ProbeOK(probes[1][2])
    /\ Len(stdout) = 2

\* the lines of the text a parser was given
Lines == Split(output)

\* lines that carry an origin sentence with the given beginning
SentenceLines(pre) == {i \in 1..Len(Lines) : StartsWith(Lines[i], pre)}

\* C3: a git status text whose only "ahead of 'origin/<ref>' by <N> commits"
\* sentence names any ref and count yields ahead = <N>; likewise for behind.
C3_OriginCounts ==
    (pc = "render" /\ scm = "git") =>
        \A ref \in Refs, n \in Counts :
            /\ (/\ SentenceLines(AHEAD_PRE) # {}
                /\ \A i \in SentenceLines(AHEAD_PRE) : Lines[i] = AheadLine(ref, n))
               => ("ahead" \in DOMAIN result /\ result["ahead"].count = PyStr(n))
            /\ (/\ SentenceLines(BEHIND_PRE) # {}
                /\ \A i \in SentenceLines(BEHIND_PRE) : Lines[i] = BehindLine(ref, n))
               => ("behind" \in DOMAIN result /\ result["behind"].count = PyStr(n))

\* positions of the text at which a line begins with the character ch
LineStarts(ch) ==
    {i \in 1..Len(output) : output[i] = ch /\ (i = 1 \/ output[i - 1] = NL)}

\* C4: HgInfo.getChanges reports untracked = the number of lines beginning
\* with '?' and uncommitted = the number of lines beginning with 'M'; a
\* category without such a line has no key, and there is no other key.
C4_HgChanges ==
    (pc = "render" /\ scm = "hg") =>
        /\ DOMAIN result \subseteq {"untracked", "uncommitted"}
        /\ "untracked" \in DOMAIN result <=> LineStarts("?") # {}
        /\ "untracked" \in DOMAIN result =>
              result["untracked"].count = PyInt(Cardinality(LineStarts("?")))
        /\ "uncommitted" \in DOMAIN result <=> LineStarts("M") # {}
        /\ "uncommitted" \in DOMAIN result =>
              result["uncommitted"].count = PyInt(Cardinality(LineStarts("M")))

\* a text with two '?' lines, an 'M' line and a line of another kind
C4_Witness ==
    /\ pc = "render"
    /\ scm = "hg"
    /\ Cardinality(LineStarts("?")) = 2
    /\ Cardinality(LineStarts("M")) = 1
    /\ DOMAIN result = {"untracked", "uncommitted"}

\* positions of the text at which a line begins with "* "
StarLines ==
    {i \in 1..Len(output) : /\ OccursAt(output, i, <<"*", " ">>)
                            /\ (i = 1 \/ output[i - 1] = NL)}

\* C5: when exactly one line of the git branch output starts with "* ",
\* getCurrentBranch returns the rest of that line; when no line holds
\* "asterisk, space", it returns None.
C5_CurrentBranch ==
    (pc = "getChanges" /\ scm = "git") =>
        /\ Cardinality(StarLines) = 1 =>
              LET i == CHOOSE j \in StarLines : TRUE
              IN  /\ branch.type = "str"
                  /\ branch.val = SubSeq(output, i + 2, LineEnd(output, i + 2) - 1)
        /\ ~Contains(output, <<"*", " ">>) => branch.type = "NoneType"

Unstyled(t) == SelectSeq(t, LAMBDA x : x \notin Styles)

CategoryOrder == <<"behind", "ahead", "untracked", "unstaged", "uncommitted">>

Label(k) ==
    CASE k = "behind" -> <<",origin", "U+25BA">>
      [] k = "ahead" -> <<",origin", "U+25C4">>
      [] k = "untracked" -> <<",untracked:">>
      [] k = "unstaged" -> <<",unstaged:">>
      [] k = "uncommitted" -> <<",uncommitted:">>

RECURSIVE Fragments(_)
Fragments(keys) ==
    IF keys = <<>> THEN <<>>
    ELSE (IF Head(keys) \in DOMAIN result
          THEN Label(Head(keys)) \o Str(result[Head(keys)].count)
          ELSE <<>>) \o Fragments(Tail(keys))

ExpectedVcsText == <<"(", scm, ":">> \o Str(branch) \o Fragments(CategoryOrder) \o <<")">>

C6_AllCategories ==
    /\ pc = "done"
    /\ calls = 2
    /\ DOMAIN result = {"behind", "ahead", "untracked", "unstaged", "uncommitted"}

Sections == {"untracked", "unstaged", "uncommitted"}

Header(k) ==
    CASE k = "untracked" -> UNTRACKED_HDR
      [] k = "unstaged" -> UNSTAGED_HDR
      [] k = "uncommitted" -> UNCOMMITTED_HDR

\* C7: every untracked, unstaged or uncommitted key of a returned Change
\* Summary has a count of at least 1.
C7_NoZeroCounts ==
    pc = "render" =>
        \A k \in DOMAIN result \cap Sections : result[k].count.val >= 1

\* C7 as amended: no count is negative; HgInfo.getChanges never reports a
\* count below 1; GitInfo.getChanges reports a section only if the text holds
\* its header, and then with a count that may be 0.
C7_Amended ==
    pc = "render" =>
        \A k \in DOMAIN result \cap Sections :
            /\ result[k].count.val >= 0
            /\ scm = "hg" => result[k].count.val >= 1
            /\ scm = "git" =>
                  \E i \in 1..Len(Lines) : Contains(Lines[i], Header(k))

\* GitInfo.getChanges returned a category with count 0
C7_Witness ==
    /\ pc = "render"
    /\ scm = "git"
    /\ "untracked" \in DOMAIN result
    /\ result["untracked"].count.val = 0

\* the line the git loop reads next, stripped of '#' and spaces
NextLine == Strip(Head(rest), {"#", " "})

IsHeader(line) == \E k \in Sections : Contains(line, Header(k))

\* C8: a line that starts with an uppercase letter and is no section header
\* sets the section to none.
C8_UppercaseEndsSection ==
    [][(/\ pc = "git_scan"
        /\ rest # <<>>
        /\ Len(NextLine) > 0
        /\ NextLine[1] \in Upper
        /\ ~IsHeader(NextLine))
       => mode' = "none"]_vars

\* the section whose header the line holds (the first of the three, in the
\* order untracked, unstaged, uncommitted, when it holds more than one)
HeaderOf(line) ==
    IF Contains(line, UNTRACKED_HDR) THEN "untracked"
    ELSE IF Contains(line, UNSTAGED_HDR) THEN "unstaged"
    ELSE "uncommitted"

\* what the scanner rules of C9 say of one step of the loop, when the lines
\* counted are the non-empty ones without `(use "git` whose first character
\* is not in breaks
ScanRules(breaks) ==
    (pc = "git_scan" /\ rest # <<>>) =>
        LET counted == /\ Len(NextLine) > 0
                       /\ ~Contains(NextLine, USE_GIT)
                       /\ NextLine[1] \notin breaks
        IN  /\ IsHeader(NextLine)
                  => /\ mode' = HeaderOf(NextLine)
                     /\ result' = Put(result, HeaderOf(NextLine), [count |-> PyInt(0)])
            /\ (~IsHeader(NextLine) /\ counted /\ mode # "none")
                  => /\ mode \in DOMAIN result
                     /\ result' = [result EXCEPT
                            ![mode] = [count |-> PyInt(result[mode].count.val + 1)]]
            /\ (~IsHeader(NextLine) /\ mode = "none") => result' = result

\* C9: a header line switches the section and sets its count to 0; every other
\* non-empty line without `(use "git` adds one to the current section only;
\* in section none no line changes a count.
C9_Scanner == [][ScanRules({})]_vars

\* C9 as amended: the lines counted are the non-empty ones without
\* `(use "git` that the section-break test re.match('^[A_Z]') does not match,
\* that is, whose first character is none of A, _ and Z.
C9_Amended == [][ScanRules({"A", "_", "Z"})]_vars

\* two lines have been counted in section unstaged
C9_Witness ==
    /\ pc = "git_scan"
    /\ mode = "unstaged"
    /\ result["unstaged"].count.val = 2

\* C10: the VCS line that is printed is the text whose non-emptiness decided
\* that a VCS line is printed.
C10_PrintsWhatDecided ==
    (pc = "done" /\ Len(stdout) = 3) => stdout[3] = SCMLine(scmInfo)

============================================================================
